---- MODULE Spec2Model ----
(***************************************************************************)
(* Model of the portfolio chat backend (src/main.py): the /api/chat        *)
(* handler with its single round of tool dispatch, and the two tool        *)
(* functions submit_contact_request and get_project_details.               *)
(*                                                                         *)
(* Python values are modelled as follows.  A str used for matching is a    *)
(* sequence of one-character strings; other text is wrapped by Text(_);    *)
(* None is NoneValue; a dict is a function from keys to values; a call     *)
(* that may raise yields [exc |-> <exception name or "">, value |-> _].    *)
(***************************************************************************)
EXTENDS Integers, Sequences, FiniteSets

VARIABLES
    Resume_Info,          \* module global, loaded once (lines 149-154)
    available_functions,  \* module global: tool name -> callable (lines 92-95)
    tools,                \* module global: tool schema (lines 97-128)
    request,              \* per call of chat: the ChatRequest
    pc,                   \* per call of chat: position in the handler
    messages,             \* per call of chat: local `messages`
    response,             \* per call of chat: local `response` (its message)
    final_response,       \* per call of chat: local `final_response`
    assistant_message,    \* per call of chat: local `assistant_message`
    idx,                  \* per call of chat: position of the for loop
    error,                \* per call of chat: the exception `e` caught at 262
    outcome,              \* per call of chat: what the HTTP caller receives
    api_log,              \* history: arguments of each completions.create
    call_log,             \* history: each call available_functions[..](..)
    mail_sent,            \* history: emails accepted by the SMTP server
    lk_pc, lk_query, lk_result  \* a direct call of get_project_details

vars == <<Resume_Info, available_functions, tools, request, pc, messages,
          response, final_response, assistant_message, idx, error, outcome,
          api_log, call_log, mail_sent, lk_pc, lk_query, lk_result>>

globals == <<Resume_Info, available_functions, tools>>
chatVars == <<request, pc, messages, response, final_response,
              assistant_message, idx, error, outcome, api_log, call_log,
              mail_sent>>
lkVars == <<lk_pc, lk_query, lk_result>>

(***************************************************************************)
(* Bounds of the model.                                                    *)
(***************************************************************************)
MaxMsgs == 1        \* caller-supplied messages per request
MaxCalls == 2       \* tool calls carried by one completion
MaxQueryLen == 2    \* characters of a looked-up project name
MaxProjects == 2    \* entries of personal_projects
MaxJobs == 1        \* entries of work_experience
ConcMaxCalls == 1   \* tool calls per completion when two requests interleave

(***************************************************************************)
(* Python values.                                                          *)
(***************************************************************************)
NoneValue == [py |-> "None"]
Text(s) == [text |-> s]
EmptyDict == [k \in {} |-> ""]

\* Python truthiness of an Optional[str]: None and "" are falsy.
Truthy(v) == v # NoneValue /\ v # Text("")

\* dict.get(key, default)
DictGet(d, key, default) == IF key \in DOMAIN d THEN d[key] ELSE default

\* d[key]: KeyError when the key is absent
Subscript(d, key) ==
    IF key \in DOMAIN d THEN [exc |-> "", value |-> d[key]]
    ELSE [exc |-> "KeyError", value |-> NoneValue]

\* json.dumps(obj): the text of obj, not obj itself
json_dumps(obj) == [json |-> obj]

\* str.lower() on one character, and on a string
LowerChar(c) == CASE c = "A" -> "a" [] c = "B" -> "b" [] OTHER -> c
lower(s) == [k \in 1..Len(s) |-> LowerChar(s[k])]

\* Python's `needle in hay` on str
StrIn(needle, hay) ==
    \E off \in 0..(Len(hay) - Len(needle)) :
        SubSeq(hay, off + 1, off + Len(needle)) = needle

RECURSIVE SeqsUpTo(_, _)
SeqsUpTo(S, n) ==
    IF n = 0 THEN {<<>>}
    ELSE LET shorter == SeqsUpTo(S, n - 1)
         IN shorter \cup {Append(s, x) : s \in {t \in shorter : Len(t) = n - 1}, x \in S}

(***************************************************************************)
(* get_project_details (lines 73-89).                                      *)
(***************************************************************************)
NotFound(project_name) ==
    [status |-> "not_found", message |-> <<"Could not find", project_name>>]

\* the for loop of lines 80-82; 0 when no project matches, -1 on KeyError
RECURSIVE FirstProject(_, _, _)
FirstProject(projects, q, k) ==
    IF k > Len(projects) THEN 0
    ELSE LET t == Subscript(projects[k], "title")
         IN IF t.exc # "" THEN -1
            ELSE IF StrIn(q, lower(t.value)) THEN k
            ELSE FirstProject(projects, q, k + 1)

\* the for loop of lines 85-87; `or` short-circuits
RECURSIVE FirstJob(_, _, _)
FirstJob(jobs, q, k) ==
    IF k > Len(jobs) THEN 0
    ELSE LET c == Subscript(jobs[k], "company")
         IN IF c.exc # "" THEN -1
            ELSE IF StrIn(q, lower(c.value)) THEN k
            ELSE LET t == Subscript(jobs[k], "title")
                 IN IF t.exc # "" THEN -1
                    ELSE IF StrIn(q, lower(t.value)) THEN k
                    ELSE FirstJob(jobs, q, k + 1)

get_project_details_JobsFirst(project_name) ==
    LET q == lower(project_name)
        projects == DictGet(Resume_Info, "personal_projects", <<>>)
        jobs == DictGet(Resume_Info, "work_experience", <<>>)
        j == FirstJob(jobs, q, 1)
        p == FirstProject(projects, q, 1)
    IN IF j > 0 THEN [exc |-> "", value |-> jobs[j]]
       ELSE IF p > 0 THEN [exc |-> "", value |-> projects[p]]
       ELSE [exc |-> "", value |-> NotFound(q)]

get_project_details_Strict(project_name) ==
    LET q == lower(project_name)
        projects == Subscript(Resume_Info, "personal_projects")
    IN IF projects.exc # "" THEN [exc |-> "KeyError", value |-> NoneValue]
       ELSE LET p == FirstProject(projects.value, q, 1)
            IN IF p > 0 THEN [exc |-> "", value |-> projects.value[p]]
               ELSE LET jobs == DictGet(Resume_Info, "work_experience", <<>>)
                        j == FirstJob(jobs, q, 1)
                    IN IF j > 0 THEN [exc |-> "", value |-> jobs[j]]
                       ELSE [exc |-> "", value |-> NotFound(q)]

get_project_details(project_name) ==
    LET q == lower(project_name)
        projects == DictGet(Resume_Info, "personal_projects", <<>>)
        p == FirstProject(projects, q, 1)
    IN IF p < 0 THEN [exc |-> "KeyError", value |-> NoneValue]
       ELSE IF p > 0 THEN [exc |-> "", value |-> projects[p]]
       ELSE LET jobs == DictGet(Resume_Info, "work_experience", <<>>)
                j == FirstJob(jobs, q, 1)
            IN IF j < 0 THEN [exc |-> "KeyError", value |-> NoneValue]
               ELSE IF j > 0 THEN [exc |-> "", value |-> jobs[j]]
               ELSE [exc |-> "", value |-> NotFound(q)]

(***************************************************************************)
(* submit_contact_request (lines 30-71).  `fault` is the SMTP step that    *)
(* fails ("none": the whole exchange succeeds).  The `with` block runs     *)
(* the connection, starttls, login, send_message and, on exit, QUIT; all   *)
(* of them are inside the try.                                             *)
(***************************************************************************)
SmtpSteps == <<"connect", "starttls", "login", "send_message", "quit">>
SmtpFaults == {"none"} \cup {SmtpSteps[k] : k \in 1..Len(SmtpSteps)}

StepsCompleted(fault) ==
    IF fault = "none" THEN {SmtpSteps[k] : k \in 1..Len(SmtpSteps)}
    ELSE LET at == CHOOSE k \in 1..Len(SmtpSteps) : SmtpSteps[k] = fault
         IN {SmtpSteps[k] : k \in 1..(at - 1)}

submit_contact_request_NoCatch(kwargs, fault) ==
    LET done == StepsCompleted(fault)
    IN IF fault # "none"
       THEN [exc |-> "SMTPException", value |-> NoneValue, completed |-> done,
             smtp |-> fault]
       ELSE [exc |-> "", completed |-> done, smtp |-> fault,
             value |-> [status |-> "success",
                        message |-> <<"Thank you", kwargs["name"], kwargs["email"]>>]]

submit_contact_request(kwargs, fault) ==
    LET done == StepsCompleted(fault)
    IN IF fault # "none"
       THEN [exc |-> "", completed |-> done, smtp |-> fault,
             value |-> [status |-> "error",
                        message |-> <<"There was an issue sending your message">>]]
       ELSE [exc |-> "", completed |-> done, smtp |-> fault,
             value |-> [status |-> "success",
                        message |-> <<"Thank you", kwargs["name"], kwargs["email"]>>]]

(***************************************************************************)
(* Module globals of the chat endpoint.                                    *)
(***************************************************************************)
ToolRegistry ==
    [submit_contact_request |-> "submit_contact_request",
     get_project_details |-> "get_project_details"]

ToolSchema ==
    {[name |-> "submit_contact_request", required |-> {"name", "email", "message"}],
     [name |-> "get_project_details", required |-> {"project_name"}]}

\* the keyword parameters of each callable (lines 30 and 73)
Params(fn) ==
    IF fn = "submit_contact_request" THEN {"name", "email", "message"}
    ELSE {"project_name"}

\* the f-string of lines 182-203 embeds json.dumps(Resume_Info)
SYSTEM_PROMPT ==
    [prompt |-> "You are Arian's AI portfolio assistant.",
     portfolio |-> json_dumps(Resume_Info)]

GenericDetail == "An internal server error occurred. Please check the backend logs."

NoTools == {}

(***************************************************************************)
(* The chat handler (lines 204-264), one action per step between two       *)
(* outbound calls.  r names one call of chat.                              *)
(***************************************************************************)

\* lines 262-264: what the caller receives for the caught exception e
InternalError_Leaky(e) == [status |-> 500, detail |-> e]

InternalError(e) == [status |-> 500, detail |-> GenericDetail]

Pending == [status |-> 0]

Raise(r, e) ==
    /\ error' = [error EXCEPT ![r] = e]
    /\ outcome' = [outcome EXCEPT ![r] = InternalError(e)]
    /\ pc' = [pc EXCEPT ![r] = "done"]

\* lines 208-211: the local list `messages`
AssembleInitial_Shared(r) ==
    LET others == {o \in DOMAIN messages : o # r /\ messages[o] # <<>>}
        base == IF others = {} THEN <<[role |-> "system", content |-> SYSTEM_PROMPT]>>
                ELSE messages[CHOOSE o \in others : TRUE]
    IN base \o [k \in 1..Len(request[r].messages) |->
                   [role |-> request[r].messages[k].role,
                    content |-> request[r].messages[k].content]]

AssembleInitial(r) ==
    <<[role |-> "system", content |-> SYSTEM_PROMPT]>>
    \o [k \in 1..Len(request[r].messages) |->
           [role |-> request[r].messages[k].role,
            content |-> request[r].messages[k].content]]

Assemble(r) ==
    /\ pc[r] = "start"
    /\ messages' = [messages EXCEPT ![r] = AssembleInitial(r)]
    /\ pc' = [pc EXCEPT ![r] = "first_completion"]
    /\ UNCHANGED <<globals, lkVars, request, response, final_response,
                   assistant_message, idx, error, outcome, api_log, call_log,
                   mail_sent>>

\* line 224: `if assistant_message.tool_calls:`
HasToolCalls_Always(msg) == TRUE

HasToolCalls(msg) == Len(msg.tool_calls) > 0

\* lines 213-225
FirstCompletion(r, Responses) ==
    /\ pc[r] = "first_completion"
    /\ api_log' = [api_log EXCEPT ![r] =
                      Append(@, [messages |-> messages[r], tools |-> tools])]
    /\ \/ /\ Raise(r, "APIError")
          /\ UNCHANGED <<messages, response, assistant_message, idx>>
       \/ \E m \in Responses :
            /\ response' = [response EXCEPT ![r] = m]
            /\ assistant_message' = [assistant_message EXCEPT ![r] = m]
            /\ IF HasToolCalls(m)
               THEN /\ messages' = [messages EXCEPT ![r] = Append(@, m)]
                    /\ idx' = [idx EXCEPT ![r] = 1]
                    /\ pc' = [pc EXCEPT ![r] =
                                 IF Len(m.tool_calls) = 0 THEN "second_completion"
                                 ELSE "dispatch"]
               ELSE /\ pc' = [pc EXCEPT ![r] = "respond"]
                    /\ UNCHANGED <<messages, idx>>
            /\ UNCHANGED <<error, outcome>>
    /\ UNCHANGED <<globals, lkVars, request, final_response, call_log, mail_sent>>

\* json.loads on the argument payload
json_loads(payload) ==
    IF payload.wellformed THEN [exc |-> "", value |-> payload.object]
    ELSE [exc |-> "JSONDecodeError", value |-> NoneValue]

\* lines 229-232
ParseArguments(arguments) ==
    LET parsed == json_loads(arguments)
    IN IF parsed.exc = "JSONDecodeError" THEN EmptyDict ELSE parsed.value

\* available_functions[function_name]
LookupFunction(function_name) == Subscript(available_functions, function_name)

\* fn(**function_args): binding the keyword arguments, then the body
CallFunction_Swallow(fn, function_args, fault) ==
    IF DOMAIN function_args # Params(fn)
    THEN [exc |-> "", completed |-> {}, smtp |-> "unused",
          value |-> [status |-> "error", message |-> <<"bad arguments">>]]
    ELSE IF fn = "submit_contact_request"
    THEN submit_contact_request(function_args, fault)
    ELSE LET res == get_project_details(function_args["project_name"])
         IN [exc |-> res.exc, value |-> res.value, completed |-> {}, smtp |-> "unused"]

CallFunction(fn, function_args, fault) ==
    IF DOMAIN function_args # Params(fn)
    THEN [exc |-> "TypeError", value |-> NoneValue, completed |-> {}, smtp |-> "unused"]
    ELSE IF fn = "submit_contact_request"
    THEN submit_contact_request(function_args, fault)
    ELSE LET res == get_project_details(function_args["project_name"])
         IN [exc |-> res.exc, value |-> res.value, completed |-> {}, smtp |-> "unused"]

\* lines 236-241
ToolMessage_Raw(tool_call, function_response) ==
    [role |-> "tool", tool_call_id |-> tool_call.id,
     name |-> tool_call.function.name,
     content |-> function_response]

ToolMessage(tool_call, function_response) ==
    [role |-> "tool", tool_call_id |-> tool_call.id,
     name |-> tool_call.function.name,
     content |-> json_dumps(function_response)]

\* one iteration of the for loop of lines 227-241
DispatchTool(r) ==
    /\ pc[r] = "dispatch"
    /\ \E fault \in SmtpFaults :
        LET tool_call == assistant_message[r].tool_calls[idx[r]]
            function_name == tool_call.function.name
            function_args == ParseArguments(tool_call.function.arguments)
            fn == LookupFunction(function_name)
        IN IF fn.exc # ""
           THEN /\ Raise(r, fn.exc)
                /\ UNCHANGED <<messages, idx, call_log, mail_sent>>
           ELSE LET res == CallFunction(fn.value, function_args, fault)
                IN /\ call_log' = [call_log EXCEPT ![r] =
                          Append(@, [index |-> idx[r], name |-> fn.value,
                                     kwargs |-> function_args,
                                     round |-> Len(api_log[r]),
                                     smtp |-> res.smtp,
                                     completed |-> res.completed,
                                     exc |-> res.exc, result |-> res.value])]
                   /\ mail_sent' = [mail_sent EXCEPT ![r] =
                          IF "send_message" \in res.completed THEN @ + 1 ELSE @]
                   /\ IF res.exc # ""
                      THEN /\ Raise(r, res.exc)
                           /\ UNCHANGED <<messages, idx>>
                      ELSE /\ messages' = [messages EXCEPT ![r] =
                                  Append(@, ToolMessage(tool_call, res.value))]
                           /\ idx' = [idx EXCEPT ![r] = @ + 1]
                           /\ pc' = [pc EXCEPT ![r] =
                                  IF idx[r] = Len(assistant_message[r].tool_calls)
                                  THEN "second_completion" ELSE "dispatch"]
                           /\ UNCHANGED <<error, outcome>>
    /\ UNCHANGED <<globals, lkVars, request, response, final_response,
                   assistant_message, api_log>>

\* lines 243-250
SecondCompletion(r, Responses) ==
    /\ pc[r] = "second_completion"
    /\ api_log' = [api_log EXCEPT ![r] =
                      Append(@, [messages |-> messages[r], tools |-> NoTools])]
    /\ \/ /\ Raise(r, "APIError")
          /\ UNCHANGED <<final_response, assistant_message>>
       \/ \E m \in Responses :
            /\ final_response' = [final_response EXCEPT ![r] = m]
            /\ assistant_message' = [assistant_message EXCEPT ![r] = m]
            /\ pc' = [pc EXCEPT ![r] = "respond"]
            /\ UNCHANGED <<error, outcome>>
    /\ UNCHANGED <<globals, lkVars, request, messages, response, idx,
                   call_log, mail_sent>>

\* line 252
session_id_to_return_IsNotNone(req) ==
    IF req.session_id # NoneValue THEN req.session_id ELSE Text("default")

session_id_to_return(req) ==
    IF Truthy(req.session_id) THEN req.session_id ELSE Text("default")

\* pydantic's Message(role=..., content=...): content must be a str
MessageModel(role, content) ==
    IF "text" \in DOMAIN content
    THEN [exc |-> "", value |-> [cls |-> "Message", role |-> role, content |-> content]]
    ELSE [exc |-> "ValidationError", value |-> NoneValue]

\* lines 252-260
Respond(r) ==
    /\ pc[r] = "respond"
    /\ LET msg == MessageModel("assistant", assistant_message[r].content)
       IN IF msg.exc # ""
          THEN Raise(r, msg.exc)
          ELSE /\ outcome' = [outcome EXCEPT ![r] =
                      [status |-> 200,
                       body |-> [message |-> msg.value,
                                 session_id |-> session_id_to_return(request[r])]]]
               /\ pc' = [pc EXCEPT ![r] = "done"]
               /\ UNCHANGED error
    /\ UNCHANGED <<globals, lkVars, request, messages, response, final_response,
                   assistant_message, idx, api_log, call_log, mail_sent>>

(***************************************************************************)
(* A direct call of get_project_details.                                   *)
(***************************************************************************)
Lookup(q) ==
    /\ lk_pc = "idle"
    /\ lk_query' = q
    /\ lk_result' = get_project_details(q)
    /\ lk_pc' = "returned"
    /\ UNCHANGED <<globals, chatVars>>

(***************************************************************************)
(* Inputs.                                                                 *)
(***************************************************************************)
QueryChars == {"a", "A", "b"}
Queries == SeqsUpTo(QueryChars, MaxQueryLen)

\* titles and company names of the resume entries
FieldValues == {<<"A", "b">>, <<"b", "a">>, <<"B">>}

ProjectLists ==
    UNION {{[k \in 1..n |-> [title |-> f[k], description |-> k]] :
                f \in [1..n -> FieldValues]} : n \in 0..MaxProjects}

JobLists ==
    UNION {{[k \in 1..n |-> [company |-> c[k], title |-> t[k], description |-> k]] :
                c \in [1..n -> FieldValues], t \in [1..n -> FieldValues]} :
           n \in 0..MaxJobs}

\* resume_info.json missing: Resume_Info = {} (line 154)
EmptyStore == EmptyDict

Stores ==
    {EmptyStore}
    \cup {[personal_projects |-> ps] : ps \in ProjectLists}
    \cup {[work_experience |-> ws] : ws \in JobLists}
    \cup {[personal_projects |-> ps, work_experience |-> ws] :
             ps \in ProjectLists, ws \in JobLists}

SampleStore ==
    [personal_projects |-> <<[title |-> <<"A", "b">>, description |-> 1]>>,
     work_experience |-> <<[company |-> <<"B">>, title |-> <<"b", "a">>,
                            description |-> 1]>>]

ChatStores == {EmptyStore, SampleStore}

\* argument payloads of a tool call: text that json.loads rejects, and objects
Malformed == [wellformed |-> FALSE, object |-> EmptyDict]
JsonObject(obj) == [wellformed |-> TRUE, object |-> obj]
ContactArgs == [name |-> "Ann", email |-> "ann@x", message |-> "hello"]
ProjectArgs == [project_name |-> <<"A">>]

ToolCallChoices ==
    {[name |-> "submit_contact_request", arguments |-> a] :
        a \in {Malformed, JsonObject(EmptyDict), JsonObject(ContactArgs)}}
    \cup
    {[name |-> "get_project_details", arguments |-> a] :
        a \in {Malformed, JsonObject(ContactArgs), JsonObject(ProjectArgs)}}
    \cup
    {[name |-> "send_sms", arguments |-> JsonObject(ContactArgs)]}

\* the tool calls of one completion: the k-th call has id k
ToolCallLists(Choices, n) ==
    {[k \in 1..Len(s) |-> [id |-> k, function |-> s[k]]] : s \in SeqsUpTo(Choices, n)}

Contents(s) == {Text(s), NoneValue}

FirstResponses ==
    {[role |-> "assistant", content |-> c, tool_calls |-> tc] :
        c \in Contents("reply"), tc \in ToolCallLists(ToolCallChoices, MaxCalls)}

SecondResponses ==
    {[role |-> "assistant", content |-> c, tool_calls |-> tc] :
        c \in Contents("final"),
        tc \in ToolCallLists({[name |-> "get_project_details",
                               arguments |-> JsonObject(ProjectArgs)]}, 1)}

MessageChoices ==
    {[cls |-> "Message", role |-> "user", content |-> Text("hi")],
     [cls |-> "Message", role |-> "assistant", content |-> Text("hello")]}

SessionIds == {NoneValue, Text(""), Text("s1")}

ChatRequests ==
    {[messages |-> ms, session_id |-> sid] :
        ms \in SeqsUpTo(MessageChoices, MaxMsgs), sid \in SessionIds}

(***************************************************************************)
(* Specifications.                                                         *)
(***************************************************************************)
InitGlobals(S) ==
    /\ Resume_Info \in S
    /\ available_functions = ToolRegistry
    /\ tools = ToolSchema

InitChat(R, Requests) ==
    /\ request \in [R -> Requests]
    /\ pc = [r \in R |-> "start"]
    /\ messages = [r \in R |-> <<>>]
    /\ response = [r \in R |-> NoneValue]
    /\ final_response = [r \in R |-> NoneValue]
    /\ assistant_message = [r \in R |-> NoneValue]
    /\ idx = [r \in R |-> 0]
    /\ error = [r \in R |-> ""]
    /\ outcome = [r \in R |-> Pending]
    /\ api_log = [r \in R |-> <<>>]
    /\ call_log = [r \in R |-> <<>>]
    /\ mail_sent = [r \in R |-> 0]

InitLookup ==
    /\ lk_pc = "idle"
    /\ lk_query = <<>>
    /\ lk_result = NoneValue

\* one chat request
Init == InitGlobals(ChatStores) /\ InitChat({1}, ChatRequests) /\ InitLookup

Next ==
    \/ \E r \in DOMAIN pc : Assemble(r)
    \/ \E r \in DOMAIN pc : FirstCompletion(r, FirstResponses)
    \/ \E r \in DOMAIN pc : DispatchTool(r)
    \/ \E r \in DOMAIN pc : SecondCompletion(r, SecondResponses)
    \/ \E r \in DOMAIN pc : Respond(r)

Spec == Init /\ [][Next]_vars

\* get_project_details called directly, over every store and query
LookupInit == InitGlobals(Stores) /\ InitChat({}, ChatRequests) /\ InitLookup

LookupNext == \E q \in Queries : Lookup(q)

SpecLookup == LookupInit /\ [][LookupNext]_vars

\* two chat requests in flight
ConcRequests ==
    {[messages |-> <<[cls |-> "Message", role |-> "user", content |-> Text("hi")]>>,
      session_id |-> NoneValue],
     [messages |-> <<[cls |-> "Message", role |-> "user", content |-> Text("mail")],
                     [cls |-> "Message", role |-> "user", content |-> Text("him")]>>,
      session_id |-> Text("s1")]}

ConcFirstResponses ==
    {[role |-> "assistant", content |-> Text("reply"), tool_calls |-> tc] :
        tc \in ToolCallLists(
                  {[name |-> "submit_contact_request", arguments |-> JsonObject(ContactArgs)],
                   [name |-> "get_project_details", arguments |-> JsonObject(ProjectArgs)],
                   [name |-> "get_project_details", arguments |-> Malformed]},
                  ConcMaxCalls)}

ConcSecondResponses ==
    {[role |-> "assistant", content |-> Text("final"), tool_calls |-> <<>>]}

ConcInit ==
    /\ InitGlobals({SampleStore})
    /\ InitChat({1, 2}, ConcRequests)
    /\ InitLookup

ConcNext ==
    \/ \E r \in DOMAIN pc : Assemble(r)
    \/ \E r \in DOMAIN pc : FirstCompletion(r, ConcFirstResponses)
    \/ \E r \in DOMAIN pc : DispatchTool(r)
    \/ \E r \in DOMAIN pc : SecondCompletion(r, ConcSecondResponses)
    \/ \E r \in DOMAIN pc : Respond(r)

SpecConc == ConcInit /\ [][ConcNext]_vars

(***************************************************************************)
(* Properties of the chat handler, checked under Spec.                     *)
(***************************************************************************)
Reqs == DOMAIN pc

\* the tool calls carried by the first completion of r (none before it)
FirstCalls(r) == IF response[r] = NoneValue THEN <<>> ELSE response[r].tool_calls

Generic500 == [status |-> 500, detail |-> GenericDetail]

\* C1: tool use is capped at one round.  The completion API is called at
\* most twice; a second call happens only after a first response with tool
\* calls, carries no tool schema, and its message is returned without any
\* further tool invocation (every invocation happened after exactly one API
\* call); a first response without tool calls leads to no invocation, no
\* second call, and is itself the message returned.
C1_OneToolRound ==
    \A r \in Reqs :
        /\ Len(api_log[r]) <= 2
        /\ Len(api_log[r]) >= 1 => api_log[r][1].tools = ToolSchema
        /\ Len(api_log[r]) = 2 =>
              /\ Len(FirstCalls(r)) > 0
              /\ api_log[r][2].tools = NoTools
        /\ \A k \in 1..Len(call_log[r]) : call_log[r][k].round = 1
        /\ (outcome[r].status = 200 /\ Len(api_log[r]) = 2) =>
              /\ final_response[r] # NoneValue
              /\ outcome[r].body.message.content = final_response[r].content
        /\ (response[r] # NoneValue /\ Len(FirstCalls(r)) = 0) =>
              /\ call_log[r] = <<>>
              /\ Len(api_log[r]) = 1
              /\ final_response[r] = NoneValue
              /\ outcome[r].status = 200 =>
                    outcome[r].body.message.content = response[r].content

\* a request answered 200 after two completions, the second of which asked
\* for a tool that was never dispatched
C1_Witness ==
    \E r \in Reqs :
        /\ outcome[r].status = 200
        /\ Len(api_log[r]) = 2
        /\ Len(final_response[r].tool_calls) > 0
        /\ Len(call_log[r]) = Len(FirstCalls(r))

\* C2: when the first completion reports n >= 1 tool calls and dispatch
\* completes, the transcript of the second completion is the first
\* transcript (system message, then the caller's messages in order), then
\* the assistant's tool-calling message, then n tool messages, the i-th
\* with the id, the function name and the serialized result of the i-th
\* call; its length is first length + 1 + n.
C2_SecondTranscript ==
    \A r \in Reqs :
        Len(api_log[r]) = 2 =>
            LET first == api_log[r][1].messages
                second == api_log[r][2].messages
                tc == FirstCalls(r)
                n == Len(tc)
                given == request[r].messages
            IN /\ n >= 1
               /\ Len(first) = 1 + Len(given)
               /\ first[1] = [role |-> "system", content |-> SYSTEM_PROMPT]
               /\ \A k \in 1..Len(given) :
                     /\ first[k + 1].role = given[k].role
                     /\ first[k + 1].content = given[k].content
               /\ Len(second) = Len(first) + 1 + n
               /\ SubSeq(second, 1, Len(first)) = first
               /\ second[Len(first) + 1] = response[r]
               /\ Len(call_log[r]) = n
               /\ \A k \in 1..n :
                     LET m == second[Len(first) + 1 + k]
                     IN /\ m.role = "tool"
                        /\ m.tool_call_id = tc[k].id
                        /\ m.name = tc[k].function.name
                        /\ call_log[r][k].index = k
                        /\ m.content = json_dumps(call_log[r][k].result)

\* a second completion issued after two tool calls, one of them a contact
\* request whose mail failed
C2_Witness ==
    \E r \in Reqs :
        /\ Len(api_log[r]) = 2
        /\ Len(FirstCalls(r)) = 2
        /\ Len(request[r].messages) >= 1
        /\ \E k \in 1..Len(call_log[r]) : call_log[r][k].smtp = "login"
        /\ \E k \in 1..Len(call_log[r]) : call_log[r][k].name = "get_project_details"

\* C3 (as claimed): a tool call to a registered tool whose argument payload
\* is not valid JSON does not abort the request: once the loop has reached
\* it, the tool has been invoked with no arguments and has returned, and
\* the request has not ended in the 500 outcome at that call.
C3_MalformedDoesNotAbort ==
    \A r \in Reqs :
        \A k \in 1..Len(FirstCalls(r)) :
            LET tc == FirstCalls(r)[k]
            IN (/\ ~tc.function.arguments.wellformed
                /\ tc.function.name \in DOMAIN available_functions
                /\ idx[r] = k
                /\ pc[r] = "done")
               => outcome[r].status # 500

\* C4: every chat request ends in exactly one of two outcomes, a 200 whose
\* message has role assistant or a 500 with the fixed generic detail;
\* whatever exception was caught, the caller receives that same 500; and
\* nothing is delivered before the handler ends.
C4_TwoOutcomes ==
    \A r \in Reqs :
        /\ pc[r] # "done" => outcome[r] = Pending /\ error[r] = ""
        /\ pc[r] = "done" =>
              \/ /\ outcome[r].status = 200
                 /\ error[r] = ""
                 /\ outcome[r].body.message.role = "assistant"
                 /\ "text" \in DOMAIN outcome[r].body.message.content
              \/ /\ outcome[r] = Generic500
                 /\ error[r] # ""
        /\ error[r] # "" => outcome[r] = Generic500

\* a request that failed while building the response, after its tools ran
\* and the second completion returned
C4_Witness ==
    \E r \in Reqs :
        /\ error[r] = "ValidationError"
        /\ Len(api_log[r]) = 2
        /\ Len(call_log[r]) >= 1
        /\ outcome[r] = Generic500

\* C5: submit_contact_request never raises on a mail failure: it returns
\* status "error", the result is appended as a tool message and the request
\* goes on (to the next call or the second completion) instead of failing
\* at that call; it returns "success" only when connect, starttls, login
\* and send_message all completed.
C5_MailFailureIsToolResult ==
    \A r \in Reqs :
        \A k \in 1..Len(call_log[r]) :
            LET c == call_log[r][k]
                base == Len(api_log[r][1].messages) + 1
            IN (c.name = "submit_contact_request" /\ c.smtp # "unused") =>
                  /\ c.exc = ""
                  /\ c.smtp # "none" =>
                        /\ c.result.status = "error"
                        /\ Len(messages[r]) >= base + k
                        /\ messages[r][base + k].role = "tool"
                        /\ messages[r][base + k].content = json_dumps(c.result)
                        /\ idx[r] > k
                        /\ k = Len(FirstCalls(r)) =>
                              \/ pc[r] = "second_completion"
                              \/ Len(api_log[r]) = 2
                  /\ c.result.status \in {"success", "error"}
                  /\ c.result.status = "success" =>
                        {"connect", "starttls", "login", "send_message"} \subseteq c.completed

\* a request answered 200 although the login to the mail server failed
C5_Witness ==
    \E r \in Reqs :
        /\ outcome[r].status = 200
        /\ \E k \in 1..Len(call_log[r]) :
              /\ call_log[r][k].name = "submit_contact_request"
              /\ call_log[r][k].smtp = "login"

\* C8 (as claimed): a 200 response carries the request's session_id if one
\* is present (not None), and "default" otherwise.
C8_SessionIdPresent ==
    \A r \in Reqs :
        outcome[r].status = 200 =>
            outcome[r].body.session_id =
                IF request[r].session_id # NoneValue THEN request[r].session_id
                ELSE Text("default")

\* C8 (amended): a 200 response carries the request's session_id if one is
\* present and not the empty string, and "default" when it is absent or
\* empty; messages, tools and other requests play no part.
C8_SessionIdNonEmpty ==
    \A r \in Reqs :
        outcome[r].status = 200 =>
            /\ request[r].session_id \in {NoneValue, Text("")} =>
                  outcome[r].body.session_id = Text("default")
            /\ request[r].session_id \notin {NoneValue, Text("")} =>
                  outcome[r].body.session_id = request[r].session_id

\* a 200 response to a request whose session_id is the empty string, after
\* a tool ran
C8_Witness ==
    \E r \in Reqs :
        /\ outcome[r].status = 200
        /\ request[r].session_id = Text("")
        /\ Len(call_log[r]) >= 1

\* the required fields the schema declares for a tool name
Required(name) == (CHOOSE t \in ToolSchema : t.name = name).required

\* a tool call whose dispatch fails: a name outside the registry, or
\* arguments that do not bind to the function's parameters
FailingCall(tc) ==
    \/ tc.function.name \notin DOMAIN ToolRegistry
    \/ ~tc.function.arguments.wellformed
    \/ DOMAIN tc.function.arguments.object # Required(tc.function.name)

FailingCalls(r) == {k \in 1..Len(FirstCalls(r)) : FailingCall(FirstCalls(r)[k])}

FirstFailing(r) == CHOOSE k \in FailingCalls(r) : \A j \in FailingCalls(r) : k <= j

\* C10: tool calls are dispatched in the order received, one invocation
\* per call; if the k-th fails, the request ends in the 500 outcome, no
\* second completion is issued, no call after k is invoked, the calls
\* before k have been invoked, and an email sent by an earlier call stays
\* sent while the caller sees only the generic 500.
C10_DispatchOrderAndFailure ==
    \A r \in Reqs :
        /\ Len(call_log[r]) <= Len(FirstCalls(r))
        /\ \A k \in 1..Len(call_log[r]) :
              /\ call_log[r][k].index = k
              /\ call_log[r][k].name = FirstCalls(r)[k].function.name
        /\ mail_sent[r] =
              Cardinality({k \in 1..Len(call_log[r]) :
                              "send_message" \in call_log[r][k].completed})
        /\ FailingCalls(r) # {} =>
              LET f == FirstFailing(r)
              IN /\ Len(api_log[r]) <= 1
                 /\ idx[r] <= f
                 /\ Len(call_log[r]) <= f
                 /\ pc[r] \notin {"second_completion", "respond"}
                 /\ pc[r] = "done" =>
                       /\ outcome[r] = Generic500
                       /\ (error[r] # "APIError") =>
                             /\ idx[r] = f
                             /\ Len(call_log[r]) >= f - 1
                             /\ \A j \in 1..(f - 1) : call_log[r][j].exc = ""

\* a request that failed at its second tool call, an unregistered name,
\* after its first call had sent an email
C10_Witness ==
    \E r \in Reqs :
        /\ error[r] = "KeyError"
        /\ idx[r] = 2
        /\ mail_sent[r] = 1
        /\ outcome[r] = Generic500
        /\ Len(api_log[r]) = 1

(***************************************************************************)
(* Properties of get_project_details, checked under SpecLookup.            *)
(***************************************************************************)
CasePairs == {<<"a", "A">>, <<"b", "B">>}

SameLetter(x, y) == x = y \/ <<x, y>> \in CasePairs \/ <<y, x>> \in CasePairs

\* t contains q, letter case ignored
ContainsIgnoringCase(q, t) ==
    \E off \in 0..(Len(t) - Len(q)) :
        \A j \in 1..Len(q) : SameLetter(q[j], t[off + j])

StoreList(key) == IF key \in DOMAIN Resume_Info THEN Resume_Info[key] ELSE <<>>

MatchingProjects(q) ==
    {k \in 1..Len(StoreList("personal_projects")) :
        ContainsIgnoringCase(q, StoreList("personal_projects")[k].title)}

MatchingJobs(q) ==
    {k \in 1..Len(StoreList("work_experience")) :
        \/ ContainsIgnoringCase(q, StoreList("work_experience")[k].company)
        \/ ContainsIgnoringCase(q, StoreList("work_experience")[k].title)}

Least(S) == CHOOSE x \in S : \A y \in S : x <= y

C7_NotFoundNeverRaises ==
    lk_pc = "returned" =>
        /\ (MatchingProjects(lk_query) = {} /\ MatchingJobs(lk_query) = {}) =>
              /\ lk_result.exc = ""
              /\ lk_result.value = NotFound(lower(lk_query))
        /\ Resume_Info = EmptyStore =>
              /\ lk_result.exc = ""
              /\ lk_result.value.status = "not_found"

\* a query that matches nothing in the empty structure
C7_Witness ==
    /\ lk_pc = "returned"
    /\ Resume_Info = EmptyStore
    /\ Len(lk_query) > 0
    /\ lk_result.exc = ""
    /\ lk_result.value.status = "not_found"

(***************************************************************************)
(* Independence of requests, checked under SpecConc.                       *)
(***************************************************************************)
Locals(r) ==
    <<request[r], pc[r], messages[r], response[r], final_response[r],
      assistant_message[r], idx[r], error[r], outcome[r], api_log[r],
      call_log[r], mail_sent[r]>>

\* the transcript r builds alone: its own request, its own first response
\* and the results of its own tool calls
OwnTranscript(r) ==
    LET given == request[r].messages
        head == <<[role |-> "system", content |-> SYSTEM_PROMPT]>>
                \o [k \in 1..Len(given) |->
                       [role |-> given[k].role, content |-> given[k].content]]
        reply == IF Len(FirstCalls(r)) > 0 THEN <<response[r]>> ELSE <<>>
        results == [k \in 1..Len(call_log[r]) |->
                       [role |-> "tool", tool_call_id |-> FirstCalls(r)[k].id,
                        name |-> FirstCalls(r)[k].function.name,
                        content |-> json_dumps(call_log[r][k].result)]]
        kept == IF Len(call_log[r]) > 0 /\ call_log[r][Len(call_log[r])].exc # ""
                THEN SubSeq(results, 1, Len(results) - 1) ELSE results
    IN IF pc[r] = "start" THEN <<>> ELSE head \o reply \o kept

OwnOutcome(r) ==
    IF pc[r] # "done" THEN Pending
    ELSE IF error[r] # "" THEN Generic500
    ELSE [status |-> 200,
          body |-> [message |-> [cls |-> "Message", role |-> "assistant",
                                 content |-> assistant_message[r].content],
                    session_id |-> IF request[r].session_id \in {NoneValue, Text("")}
                                   THEN Text("default")
                                   ELSE request[r].session_id]]

\* C9: requests are independent.  Under every interleaving of two chat
\* requests at their outbound calls, each step changes the locals of one
\* request only, every transcript and outcome is the one the request
\* builds alone from its own input and replies, and the Resume Store, the
\* tool registry and the tool schema never change.
C9_RequestsIndependent ==
    /\ [][globals' = globals]_vars
    /\ [][\E r \in Reqs : \A o \in Reqs \ {r} : Locals(o)' = Locals(o)]_vars
    /\ [](\A r \in Reqs : messages[r] = OwnTranscript(r) /\ outcome[r] = OwnOutcome(r))

\* two different requests in flight at once: one between its tool call
\* and its second completion, the other still dispatching
C9_Witness ==
    /\ Cardinality(Reqs) = 2
    /\ \E r \in Reqs, o \in Reqs :
          /\ request[r] # request[o]
          /\ pc[r] = "second_completion" /\ Len(call_log[r]) = 1
          /\ pc[o] = "dispatch"

====
